---- MODULE Spec2Model ----
(***************************************************************************)
(* A model of three leaf components of magentic-ui:                        *)
(*   - BedrockClaudeChatCompletionClient (models/bedrock_claude_client.py) *)
(*   - GeminiChatCompletionClient        (models/gemini_client.py)         *)
(*   - VncDockerPlaywrightBrowser (tools/playwright/browser/               *)
(*                                 vnc_docker_playwright_browser.py)       *)
(*                                                                         *)
(* Python strings are sequences of one-character strings, so that joining, *)
(* formatting, len() and split() are computed and not assumed.  A message  *)
(* is a dict {role, content}; its content is tagged as a string            *)
(* ([t |-> "str"]) or a list of parts ([t |-> "list"]), which is what      *)
(* isinstance(content, list) tells apart.                                  *)
(***************************************************************************)
EXTENDS Integers, Sequences, FiniteSets, TLC

VARIABLES
    adapter,        \* which chat adapter this instance is: "bedrock" | "gemini"
    cfg,            \* the instance's configured temperature / max tokens
    tiktoken,       \* whether `import tiktoken` succeeds in this process
    has_usage,      \* hasattr(self, "_actual_usage")
    has_total,      \* hasattr(self, "_total_usage")
    actual_usage,   \* self._actual_usage
    total_usage,    \* self._total_usage
    ncalls,         \* number of create() calls that returned a result
    sum_usage,      \* sum of the usage records those calls returned
    last,           \* the last operation: its arguments, vendor calls, outcome
    gen,            \* the generator object made by Gemini create_chat_completion
    tasks,          \* the create() calls under way at once, each a coroutine on a loop
    launcher,       \* the VncDockerPlaywrightBrowser instance's fields
    env,            \* the process environment (hostname variables)
    docker,         \* the requests the last launcher call made to the container runtime
    lcall           \* the last call made on the launcher: its name, inputs, outcome

adapterVars == <<adapter, cfg, tiktoken, has_usage, has_total, actual_usage,
                 total_usage, ncalls, sum_usage, last, gen, tasks>>
launcherVars == <<launcher, env, docker, lcall>>
vars == <<adapter, cfg, tiktoken, has_usage, has_total, actual_usage, total_usage,
          ncalls, sum_usage, last, gen, tasks, launcher, env, docker, lcall>>

(***************************************************************************)
(* Bounds of the model.                                                    *)
(***************************************************************************)
\* create() calls that return a result, per adapter instance
MaxCalls == 2
\* chunks in one vendor stream
MaxChunks == 2
\* create() calls under way at once on one adapter instance
MaxCallers == 2

(***************************************************************************)
(* Strings.                                                                *)
(***************************************************************************)
Str(s) == [t |-> "str", v |-> s]
Lst(ps) == [t |-> "list", v |-> ps]

Space == <<" ">>
Newline == <<"\n">>
IsSpace(c) == c \in {" ", "\n"}

\* sep.join(parts)
RECURSIVE Join(_, _)
Join(sep, parts) ==
    IF parts = <<>> THEN <<>>
    ELSE IF Len(parts) = 1 THEN parts[1]
    ELSE parts[1] \o sep \o Join(sep, Tail(parts))

\* len(text.split()): the maximal runs of non-whitespace characters
SplitLen(text) ==
    Cardinality({i \in 1..Len(text) :
        /\ ~IsSpace(text[i])
        /\ (i = 1 \/ IsSpace(text[i - 1]))})

Max(a, b) == IF a >= b THEN a ELSE b

\* d.get(key, default)
Get(d, key, default) == IF key \in DOMAIN d THEN d[key] ELSE default

User == <<"u", "s", "e", "r">>
Assistant == <<"a", "s", "s", "i", "s", "t", "a", "n", "t">>
System == <<"s", "y", "s", "t", "e", "m">>

\* outcomes of an operation
Returned(v) == [kind |-> "result", value |-> v]
Raised(e) == [kind |-> "error", error |-> e]
Usage(p, c) == [prompt_tokens |-> p, completion_tokens |-> c]

(***************************************************************************)
(* Inputs.                                                                 *)
(***************************************************************************)
Hi == <<"h", "i">>
Long == <<"w", "h", "a", "t", " ", "i", "s", " ", "u", "p", " ", "n", "o", "w">>
Pic == <<"p", "i", "c">>

MsgLists ==
    { << [role |-> System, content |-> Str(Pic)],
         [role |-> User, content |-> Lst(<<Hi, Pic>>)] >>,
      << [role |-> User, content |-> Str(Long)],
         [role |-> Assistant, content |-> Str(<<>>)],
         [role |-> User, content |-> Str(Hi)] >> }

\* the arguments of count_tokens: a message list or a string
TokenArgs == {Lst(m) : m \in MsgLists} \cup {Lst(<<>>), Str(<<>>), Str(Hi), Str(Long)}

\* per-call overrides (**kwargs / extra_create_args)
NoArgs == [k \in {} |-> 0]
BedrockArgs == {NoArgs, [max_tokens |-> 256, temperature |-> 1]}
GeminiArgs == {NoArgs, [max_output_tokens |-> 256, temperature |-> 1]}

\* what the stubbed Bedrock endpoint answers: the decoded JSON body, or a raise
BedrockResponses ==
    { [shape |-> "ok", text |-> Hi, stop_reason |-> "end_turn"],
      [shape |-> "ok", text |-> Long, stop_reason |-> "absent"],
      [shape |-> "no_content", text |-> <<>>, stop_reason |-> "end_turn"],
      [shape |-> "empty_content", text |-> <<>>, stop_reason |-> "end_turn"],
      [shape |-> "no_text", text |-> <<>>, stop_reason |-> "absent"],
      [shape |-> "raise", text |-> <<>>, stop_reason |-> "absent"] }

(***************************************************************************)
(* BedrockClaudeChatCompletionClient                                       *)
(***************************************************************************)
AnthropicVersion == <<"b", "e", "d", "r", "o", "c", "k", "-", "2", "0", "2", "3", "-", "0", "5", "-", "3", "1">>

\* _convert_messages joining the parts with "" instead of " "
_convert_message_nosep(m) ==
    LET role == Get(m, "role", User)
        content == Get(m, "content", Str(<<>>))
    IN  [role |-> role,
         content |-> IF content.t = "list" THEN Str(Join(<<>>, content.v))
                     ELSE content]

\* one iteration of the loop of _convert_messages
_convert_message(m) ==
    LET role == Get(m, "role", User)
        content == Get(m, "content", Str(<<>>))
    IN  [role |-> role,
         content |-> IF content.t = "list" THEN Str(Join(Space, content.v))
                     ELSE content]

_convert_messages(messages) ==
    [i \in 1..Len(messages) |-> _convert_message(messages[i])]

\* the response parsed with .get() and defaults instead of subscripts
BedrockParseDefaulted(resp) ==
    Returned([choices |-> <<
        [message |-> [role |-> Assistant, content |-> resp.text],
         finish_reason |-> IF resp.stop_reason = "absent" THEN "stop"
                           ELSE resp.stop_reason] >>])

\* body_json["content"][0]["text"] and body_json.get("stop_reason", "stop")
BedrockParse(resp) ==
    CASE resp.shape = "no_content" -> Raised("KeyError")
      [] resp.shape = "empty_content" -> Raised("IndexError")
      [] resp.shape = "no_text" -> Raised("KeyError")
      [] OTHER ->
            Returned([choices |-> <<
                [message |-> [role |-> Assistant, content |-> resp.text],
                 finish_reason |-> IF resp.stop_reason = "absent" THEN "stop"
                                   ELSE resp.stop_reason] >>])

\* create_chat_completion run in context ctx against a backend that answers
\* resp: the vendor calls it makes and what it returns or raises
BedrockCreateChatCompletion(self, messages, stream, kwargs, resp, ctx) ==
    IF stream THEN [requests |-> <<>>, outcome |-> Raised("NotImplementedError")]
    ELSE
        LET payload == [anthropic_version |-> AnthropicVersion,
                        max_tokens |-> Get(kwargs, "max_tokens", self.max_tokens),
                        temperature |-> Get(kwargs, "temperature", self.temperature),
                        messages |-> _convert_messages(messages)]
            request == [api |-> "invoke_model", body |-> payload, ctx |-> ctx]
        IN  [requests |-> <<request>>,
             outcome |-> IF resp.shape = "raise" THEN Raised("ClientError")
                         ELSE BedrockParse(resp)]


\* acreate_chat_completion with stream=stream left out of the lambda
BedrockACreateChatCompletionNoStream(self, messages, stream, kwargs, resp) ==
    BedrockCreateChatCompletion(self, messages, FALSE, kwargs, resp, "worker")

\* acreate_chat_completion: the same call, made by the executor's worker
BedrockACreateChatCompletion(self, messages, stream, kwargs, resp) ==
    BedrockCreateChatCompletion(self, messages, stream, kwargs, resp, "worker")

\* count_tokens: 4 characters per token, at least 1.  Joining the contents
\* raises TypeError when one of them is a list.
BedrockCountTokens(arg) ==
    IF arg.t = "str" THEN Returned(Max(1, Len(arg.v) \div 4))
    ELSE
        LET contents == [i \in 1..Len(arg.v) |-> Get(arg.v[i], "content", Str(<<>>))]
        IN  IF \E i \in 1..Len(contents) : contents[i].t = "list"
            THEN Raised("TypeError")
            ELSE LET flat == Join(Newline, [i \in 1..Len(contents) |-> contents[i].v])
                 IN  Returned(Max(1, Len(flat) \div 4))

BedrockTokenLimit == 200000

BedrockRemainingTokens(messages) ==
    LET n == BedrockCountTokens(Lst(messages))
    IN  IF n.kind = "error" THEN n ELSE Returned(BedrockTokenLimit - n.value)

\* _update_usage with the total overwritten by the delta instead of added to
_update_usage_overwrite(u, delta) ==
    LET actual == IF u.has THEN u.actual ELSE Usage(0, 0)
    IN  [has |-> TRUE,
         actual |-> Usage(actual.prompt_tokens + delta.prompt_tokens,
                          actual.completion_tokens + delta.completion_tokens),
         total |-> delta]

\* _update_usage with the hasattr test lost: both records start from zero
\* at every call
_update_usage_reset(u, delta) ==
    [has |-> TRUE, actual |-> delta, total |-> delta]

\* _update_usage, the same in both adapters; u is [has, actual, total]
_update_usage(u, delta) ==
    LET actual == IF u.has THEN u.actual ELSE Usage(0, 0)
        total == IF u.has THEN u.total ELSE Usage(0, 0)
    IN  [has |-> TRUE,
         actual |-> Usage(actual.prompt_tokens + delta.prompt_tokens,
                          actual.completion_tokens + delta.completion_tokens),
         total |-> Usage(total.prompt_tokens + delta.prompt_tokens,
                         total.completion_tokens + delta.completion_tokens)]

JsonSysContent == <<"Y", "o", "u", " ", "a", "r", "e", " ", "a", " ", "s", "y", "s", "t", "e", "m", " ", "t", "h", "a", "t", " ", "m", "u", "s", "t", " ", "o", "u", "t", "p", "u", "t", " ", "*", "o", "n", "l", "y", "*", " ", "v", "a", "l", "i", "d", " ", "J", "S", "O", "N", ".", " ", "D", "o", " ", "n", "o", "t", " ", "i", "n", "c", "l", "u", "d", "e", " ", "a", "n", "y", " ", "a", "d", "d", "i", "t", "i", "o", "n", "a", "l", " ", "t", "e", "x", "t", ".">>

json_sys == [role |-> System, content |-> Str(JsonSysContent)]

\* the message sequence create() hands to create_chat_completion
BedrockMsgSeq(messages, json_output) ==
    IF json_output THEN <<json_sys>> \o messages ELSE messages

\* create: the vendor calls made, the outcome, and the usage fields afterwards
BedrockCreate(self, u, messages, json_output, extra_create_args, resp) ==
    LET msg_seq == BedrockMsgSeq(messages, json_output)
        response == BedrockCreateChatCompletion(self, msg_seq, FALSE, extra_create_args,
                                                resp, "worker")
    IN  IF response.outcome.kind = "error"
        THEN [requests |-> response.requests, outcome |-> response.outcome, usage |-> u]
        ELSE
            LET content == response.outcome.value.choices[1].message.content
                prompt_tokens == BedrockCountTokens(Lst(messages))
                completion_tokens == BedrockCountTokens(Str(content))
            IN  IF prompt_tokens.kind = "error"
                THEN [requests |-> response.requests, outcome |-> prompt_tokens, usage |-> u]
                ELSE
                    LET usage == Usage(prompt_tokens.value, completion_tokens.value)
                    IN  [requests |-> response.requests,
                         outcome |-> Returned([finish_reason |-> "stop",
                                               content |-> content,
                                               usage |-> usage,
                                               cached |-> FALSE]),
                         usage |-> _update_usage(u, usage)]

\* create_stream, iterated to its end: create, then the content, then the result
BedrockCreateStream(self, u, messages, json_output, extra_create_args, resp) ==
    LET r == BedrockCreate(self, u, messages, json_output, extra_create_args, resp)
    IN  IF r.outcome.kind = "error" THEN r
        ELSE [requests |-> r.requests,
              outcome |-> [kind |-> "stream",
                           items |-> <<r.outcome.value.content, r.outcome.value>>],
              usage |-> r.usage]

(***************************************************************************)
(* GeminiChatCompletionClient                                              *)
(***************************************************************************)
\* the number of characters of the language instruction after "system: "
InstructionLen == 48

\* the fixed first line of every prompt; "#" stands for one CJK character
LanguageInstruction == System \o <<":", " ">> \o [i \in 1..InstructionLen |-> "#"]

_convert_messages_to_prompt(messages) ==
    LET line(m) ==
            LET role == Get(m, "role", User)
                content == Get(m, "content", Str(<<>>))
            IN  role \o <<":", " ">> \o
                (IF content.t = "list" THEN Join(Space, content.v) ELSE content.v)
    IN  Join(Newline, <<LanguageInstruction>> \o
                      [i \in 1..Len(messages) |-> line(messages[i])])

\* len(enc.encode(text)) of the cl100k_base encoder, which is not part of
\* this repository: a stand-in of one token for every 4 characters begun
TiktokenLen(text) == (Len(text) + 3) \div 4

\* count_tokens: 0 for an empty argument, else tiktoken's count, else words
GeminiCountTokens(arg, tk) ==
    IF arg.v = <<>> THEN 0
    ELSE LET text == IF arg.t = "str" THEN arg.v
                     ELSE _convert_messages_to_prompt(arg.v)
         IN  IF tk THEN TiktokenLen(text) ELSE SplitLen(text)

GeminiTokenLimit == 8192

GeminiRemainingTokens(messages, tk) ==
    GeminiTokenLimit - GeminiCountTokens(Lst(messages), tk)

\* what the stubbed SDK answers to generate_content(prompt, ...)
GeminiResponses ==
    { [shape |-> "ok", text |-> Hi, finish |-> "STOP"],
      [shape |-> "ok", text |-> Long, finish |-> "absent"],
      [shape |-> "raise", text |-> <<>>, finish |-> "absent"] }

\* create: it calls the SDK itself, in the coroutine
GeminiCreate(self, u, messages, extra_create_args, resp, tk) ==
    LET prompt == _convert_messages_to_prompt(messages)
        request == [api |-> "generate_content", prompt |-> prompt, stream |-> FALSE,
                    kwargs |-> extra_create_args, ctx |-> "loop"]
    IN  IF resp.shape = "raise"
        THEN [requests |-> <<request>>, outcome |-> Raised("SdkError"), usage |-> u]
        ELSE
            LET content == resp.text
                usage == Usage(GeminiCountTokens(Str(prompt), tk),
                               GeminiCountTokens(Str(content), tk))
            IN  [requests |-> <<request>>,
                 outcome |-> Returned([finish_reason |-> "stop",
                                       content |-> content,
                                       usage |-> usage,
                                       cached |-> FALSE]),
                 usage |-> _update_usage(u, usage)]

GeminiCreateStream(self, u, messages, extra_create_args, resp, tk) ==
    LET r == GeminiCreate(self, u, messages, extra_create_args, resp, tk)
    IN  IF r.outcome.kind = "error" THEN r
        ELSE [requests |-> r.requests,
              outcome |-> [kind |-> "stream",
                           items |-> <<r.outcome.value.content, r.outcome.value>>],
              usage |-> r.usage]


\* the sequences over S of length up to n
RECURSIVE SeqsUpTo(_, _)
SeqsUpTo(S, n) ==
    IF n = 0 THEN {<<>>}
    ELSE LET shorter == SeqsUpTo(S, n - 1)
         IN  shorter \cup {Append(q, x) : q \in shorter, x \in S}

\* what the stubbed SDK answers to generate_content(prompt, stream=True, ...):
\* an iterable of up to MaxChunks chunks, each with a text and none repeating
\* the one before it, or a raise
GeminiStreams ==
    {[shape |-> "ok", chunks |-> q] :
        q \in {c \in SeqsUpTo({Hi, Pic}, MaxChunks) :
                  \A i \in 1..(Len(c) - 1) : c[i] # c[i + 1]}}
        \cup {[shape |-> "raise", chunks |-> <<>>]}

Fragment(text) ==
    [choices |-> << [delta |-> [content |-> text], index |-> 0,
                     finish_reason |-> "None"] >>]

TerminalFragment ==
    [choices |-> << [delta |-> [k \in {} |-> 0], index |-> 0,
                     finish_reason |-> "stop"] >>]

NoGen == [state |-> "none"]

\* create_chat_completion has a yield in its body, so calling it runs none of
\* it: the call makes a generator object, whatever the value of stream
GeminiCreateChatCompletion(self, messages, stream, kwargs, consumer) ==
    [state |-> "created", self |-> self, messages |-> messages, stream |-> stream,
     kwargs |-> kwargs, consumer |-> consumer, chunks |-> <<>>, pos |-> 0,
     terminal |-> FALSE, out |-> <<>>, requests |-> <<>>,
     ret |-> [kind |-> "pending"]]

\* acreate_chat_completion: the worker makes the generator object and the
\* awaiting coroutine gets it back
GeminiACreateChatCompletion(self, messages, stream, kwargs) ==
    GeminiCreateChatCompletion(self, messages, stream, kwargs, "loop")

\* the generator body without its last yield
GeneratorYieldNoTerminal(g) ==
    IF g.pos < Len(g.chunks)
    THEN [g EXCEPT !.state = "suspended", !.pos = g.pos + 1,
                   !.out = Append(g.out, Fragment(g.chunks[g.pos + 1]))]
    ELSE [g EXCEPT !.state = "finished", !.ret = [kind |-> "exhausted"]]

\* the loop `for chunk in gemini_stream: yield ...`, then the last yield,
\* then the end of the body
GeneratorYield(g) ==
    IF g.pos < Len(g.chunks)
    THEN [g EXCEPT !.state = "suspended", !.pos = g.pos + 1,
                   !.out = Append(g.out, Fragment(g.chunks[g.pos + 1]))]
    ELSE IF ~g.terminal
    THEN [g EXCEPT !.state = "suspended", !.terminal = TRUE,
                   !.out = Append(g.out, TerminalFragment)]
    ELSE [g EXCEPT !.state = "finished", !.ret = [kind |-> "exhausted"]]

\* next(generator): run the body from where it stands to its next yield,
\* return or raise; vendor is what the SDK answers if the call is made now
GeneratorNext(g, vendor) ==
    IF g.state = "created"
    THEN
        LET prompt == _convert_messages_to_prompt(g.messages)
            generation_kwargs ==
                [temperature |-> Get(g.kwargs, "temperature", g.self.temperature),
                 max_output_tokens |->
                     Get(g.kwargs, "max_output_tokens", g.self.max_output_tokens)]
            request == [api |-> "generate_content", prompt |-> prompt,
                        stream |-> g.stream, kwargs |-> generation_kwargs,
                        ctx |-> g.consumer]
            called == [g EXCEPT !.requests = <<request>>]
        IN  IF vendor.shape = "raise"
            THEN [called EXCEPT !.state = "finished", !.ret = Raised("SdkError")]
            ELSE IF g.stream
            THEN GeneratorYield([called EXCEPT !.chunks = vendor.chunks])
            ELSE [called EXCEPT
                    !.state = "finished",
                    !.ret = Returned([choices |-> <<
                        [message |-> [role |-> Assistant, content |-> vendor.text],
                         finish_reason |-> IF vendor.finish = "absent" THEN "stop"
                                           ELSE vendor.finish] >>])]
    ELSE GeneratorYield(g)


(***************************************************************************)
(* VncDockerPlaywrightBrowser                                              *)
(***************************************************************************)
NoneVal == [t |-> "none", v |-> <<>>]

\* `a or b` written as a test for None: an empty string is taken
OrNoneOnly(a, b) == IF a.t = "none" THEN b ELSE a

\* Python's `a or b` on optional strings: None and "" are both falsy
Or(a, b) == IF a.t = "none" \/ a.v = <<>> THEN b ELSE a

Digits == <<"0", "1", "2", "3", "4", "5", "6", "7", "8", "9">>

\* str(n) of a non-negative integer, as f-strings and str() format it
RECURSIVE Decimal(_)
Decimal(n) ==
    IF n < 10 THEN <<Digits[n + 1]>>
    ELSE Decimal(n \div 10) \o <<Digits[(n % 10) + 1]>>

DefaultPlaywrightPort == 37367
DefaultNovncPort == 6080

NamePrefix == <<"m", "a", "g", "e", "n", "t", "i", "c", "-", "u", "i", "-", "v", "n", "c", "-", "b", "r", "o", "w", "s", "e", "r", "_">>
DefaultImage == <<"m", "a", "g", "e", "n", "t", "i", "c", "-", "u", "i", "-", "v", "n", "c", "-", "b", "r", "o", "w", "s", "e", "r">>
DefaultNetwork == <<"m", "y", "-", "n", "e", "t", "w", "o", "r", "k">>
Loopback == <<"1", "2", "7", ".", "0", ".", "0", ".", "1">>

EnvNames == <<"MUI_EXTERNAL_HOST", "PUBLIC_HOST", "PUBLIC_IP", "HOST_IP">>

\* os.getenv(name): the value, or None when the variable is unset
getenv(e, name) == e[name]

\* os.getenv("MUI_EXTERNAL_HOST") or os.getenv("PUBLIC_HOST") or
\* os.getenv("PUBLIC_IP") or os.getenv("HOST_IP")
external_host_env(e) ==
    Or(getenv(e, "MUI_EXTERNAL_HOST"),
       Or(getenv(e, "PUBLIC_HOST"),
          Or(getenv(e, "PUBLIC_IP"), getenv(e, "HOST_IP"))))

\* f"magentic-ui-vnc-browser_{self._playwright_websocket_path}_{self._novnc_port}"
ContainerName(token, novnc_port) ==
    NamePrefix \o token \o <<"_">> \o Decimal(novnc_port)

\* the hostname with the environment's host taken first, docker or not
HostnameEnvFirst(token, novnc_port, inside_docker, e) ==
    IF external_host_env(e).t # "none" /\ external_host_env(e).v # <<>>
    THEN external_host_env(e).v
    ELSE IF inside_docker THEN ContainerName(token, novnc_port)
    ELSE Loopback

\* the assignment to self._hostname, the same in __init__ and in
\* _generate_new_browser_address
Hostname(token, novnc_port, inside_docker, e) ==
    IF inside_docker THEN ContainerName(token, novnc_port)
    ELSE Or(external_host_env(e), Str(Loopback)).v

\* __init__; token_hex is what secrets.token_hex(16) returns if it is called
VncDockerPlaywrightBrowser(bind_dir, image, playwright_port, playwright_websocket_path, novnc_port, inside_docker, network_name, e, token_hex) ==
    LET token == Or(playwright_websocket_path, Str(token_hex)).v
    IN  [bind_dir |-> bind_dir,
         image |-> image,
         playwright_port |-> playwright_port,
         novnc_port |-> novnc_port,
         playwright_websocket_path |-> token,
         inside_docker |-> inside_docker,
         network_name |-> network_name,
         hostname |-> Hostname(token, novnc_port, inside_docker, e),
         docker_name |-> ContainerName(token, novnc_port)]

\* the keyword-only parameters of __init__; bind_dir alone has no default
InitParams ==
    {"bind_dir", "image", "playwright_port", "playwright_websocket_path",
     "novnc_port", "inside_docker", "network_name"}

\* VncDockerPlaywrightBrowser(**kw): Python binds the keywords to the
\* parameters of __init__ before its body runs, and raises TypeError for a
\* keyword that is none of them and for a missing bind_dir
Construct(kw, e, token_hex) ==
    IF ~(DOMAIN kw \subseteq InitParams) \/ "bind_dir" \notin DOMAIN kw
    THEN Raised("TypeError")
    ELSE Returned(VncDockerPlaywrightBrowser(
             kw.bind_dir,
             Get(kw, "image", DefaultImage),
             Get(kw, "playwright_port", DefaultPlaywrightPort),
             Get(kw, "playwright_websocket_path", NoneVal),
             Get(kw, "novnc_port", DefaultNovncPort),
             Get(kw, "inside_docker", TRUE),
             Get(kw, "network_name", DefaultNetwork),
             e, token_hex))

\* _generate_new_browser_address without its last assignment: the container
\* name keeps the old viewer port
_generate_new_browser_address_stale(self, port1, port2, e) ==
    [self EXCEPT
        !.playwright_port = port1,
        !.novnc_port = port2,
        !.hostname = Hostname(self.playwright_websocket_path, port2,
                              self.inside_docker, e)]

\* _generate_new_browser_address; port1 and port2 are what the two calls of
\* _get_available_port return
_generate_new_browser_address(self, port1, port2, e) ==
    [self EXCEPT
        !.playwright_port = port1,
        !.novnc_port = port2,
        !.hostname = Hostname(self.playwright_websocket_path, port2,
                              self.inside_docker, e),
        !.docker_name = ContainerName(self.playwright_websocket_path, port2)]

browser_address(self) ==
    <<"w", "s", ":", "/", "/">> \o self.hostname \o <<":">>
        \o Decimal(self.playwright_port) \o <<"/">> \o self.playwright_websocket_path

vnc_address(self) ==
    <<"h", "t", "t", "p", ":", "/", "/">> \o self.hostname \o <<":">>
        \o Decimal(self.novnc_port) \o <<"/", "v", "n", "c", ".", "h", "t", "m", "l">>

Cwd == <<"/", "c", "w", "d">>

\* str(path.resolve()) of a path without symbolic links or dots
Resolve(path) == IF path[1] = "/" THEN path ELSE Cwd \o <<"/">> \o path

Tcp(port) == Decimal(port) \o <<"/", "t", "c", "p">>

\* create_container joining the configured network whatever inside_docker is
create_container_network(self) ==
    [call |-> "containers.create",
     name |-> self.docker_name,
     image |-> self.image,
     detach |-> TRUE,
     auto_remove |-> TRUE,
     network |-> Str(self.network_name),
     ports |-> {<<Tcp(self.playwright_port), self.playwright_port>>,
                <<Tcp(self.novnc_port), self.novnc_port>>},
     volumes |-> {<<Resolve(self.bind_dir), [bind |-> "/workspace", mode |-> "rw"]>>},
     environment |-> [PLAYWRIGHT_WS_PATH |-> self.playwright_websocket_path,
                      PLAYWRIGHT_PORT |-> Decimal(self.playwright_port),
                      NO_VNC_PORT |-> Decimal(self.novnc_port)]]

\* the keyword arguments create_container gives to client.containers.create;
\* the ports dict is the set of its (key, value) items
create_container(self) ==
    [call |-> "containers.create",
     name |-> self.docker_name,
     image |-> self.image,
     detach |-> TRUE,
     auto_remove |-> TRUE,
     network |-> IF self.inside_docker THEN Str(self.network_name) ELSE NoneVal,
     ports |-> {<<Tcp(self.playwright_port), self.playwright_port>>,
                <<Tcp(self.novnc_port), self.novnc_port>>},
     volumes |-> {<<Resolve(self.bind_dir), [bind |-> "/workspace", mode |-> "rw"]>>},
     environment |-> [PLAYWRIGHT_WS_PATH |-> self.playwright_websocket_path,
                      PLAYWRIGHT_PORT |-> Decimal(self.playwright_port),
                      NO_VNC_PORT |-> Decimal(self.novnc_port)]]

_to_config(self) ==
    [bind_dir |-> self.bind_dir,
     image |-> self.image,
     playwright_port |-> self.playwright_port,
     novnc_port |-> self.novnc_port,
     playwright_websocket_path |-> Str(self.playwright_websocket_path),
     inside_docker |-> self.inside_docker]

_from_config(config, e, token_hex) ==
    VncDockerPlaywrightBrowser(config.bind_dir, config.image, config.playwright_port,
                               config.playwright_websocket_path, config.novnc_port,
                               config.inside_docker, DefaultNetwork, e, token_hex)


(***************************************************************************)
(* The adapters as a state machine: one instance, one caller at a time.    *)
(***************************************************************************)
DefaultTemperature == 0
DefaultMaxTokens == 1024

\* the keyword arguments the instance was constructed with
Configs(a) ==
    IF a = "bedrock"
    THEN {[temperature |-> DefaultTemperature, max_tokens |-> DefaultMaxTokens]}
    ELSE {[temperature |-> DefaultTemperature, max_output_tokens |-> DefaultMaxTokens]}

\* no create() call is under way
NoTasks == <<>>

UsageFields == [has |-> has_usage, actual |-> actual_usage, total |-> total_usage]

\* actual_usage() and total_usage(): Bedrock reads with getattr(.., None),
\* Gemini reads the attribute, which _update_usage creates
BedrockActualUsage(u) == IF u.has THEN Returned(u.actual) ELSE Returned("None")
BedrockTotalUsage(u) == IF u.has THEN Returned(u.total) ELSE Returned("None")
GeminiActualUsage(u) == IF u.has THEN Returned(u.actual) ELSE Raised("AttributeError")
GeminiTotalUsage(u) == IF u.has THEN Returned(u.total) ELSE Raised("AttributeError")

Args(messages, stream, json_output, kwargs, resp) ==
    [messages |-> messages, stream |-> stream, json_output |-> json_output,
     kwargs |-> kwargs, resp |-> resp]

NoResp == [shape |-> "none"]

\* the record of an operation just made
Op(op, args, requests, outcome) ==
    [op |-> op, args |-> args, requests |-> requests, outcome |-> outcome,
     usage_before |-> UsageFields]

EnvNameSet == {EnvNames[i] : i \in 1..Len(EnvNames)}

\* the record of a call just made on the launcher
LCall(op, args, outcome) == [op |-> op, args |-> args, outcome |-> outcome]

\* what the properties read of a constructor call's keywords
InitArgs(external_host, inside_docker) ==
    [external_host |-> external_host, inside_docker |-> inside_docker]

FixedLauncher ==
    /\ env = [n \in EnvNameSet |-> NoneVal]
    /\ lcall = LCall("__init__", InitArgs(NoneVal, TRUE), Returned("None"))
    /\ launcher = VncDockerPlaywrightBrowser(<<"/", "w">>, DefaultImage,
                      DefaultPlaywrightPort, NoneVal, DefaultNovncPort, TRUE,
                      DefaultNetwork, env, <<"a", "f", "0", "1">>)
    /\ docker = <<>>

Init ==
    /\ adapter \in {"bedrock", "gemini"}
    /\ cfg \in Configs(adapter)
    /\ tiktoken \in (IF adapter = "gemini" THEN BOOLEAN ELSE {FALSE})
    /\ has_usage = FALSE
    /\ has_total = FALSE
    /\ actual_usage = Usage(0, 0)
    /\ total_usage = Usage(0, 0)
    /\ ncalls = 0
    /\ sum_usage = Usage(0, 0)
    /\ last = [op |-> "init"]
    /\ gen = NoGen
    /\ tasks = NoTasks
    /\ FixedLauncher

\* an operation that touches no usage field
NoUsageChange ==
    UNCHANGED <<adapter, cfg, tiktoken, has_usage, has_total, actual_usage,
                total_usage, ncalls, sum_usage, tasks, launcher, env, docker, lcall>>

\* the state after create or create_stream ended with r
AfterCreate(r) ==
    /\ has_usage' = r.usage.has
    /\ has_total' = r.usage.has
    /\ actual_usage' = r.usage.actual
    /\ total_usage' = r.usage.total
    /\ IF r.outcome.kind = "error"
       THEN UNCHANGED <<ncalls, sum_usage>>
       ELSE LET usage == IF r.outcome.kind = "stream" THEN r.outcome.items[2].usage
                         ELSE r.outcome.value.usage
            IN  /\ ncalls' = ncalls + 1
                /\ sum_usage' = Usage(sum_usage.prompt_tokens + usage.prompt_tokens,
                                      sum_usage.completion_tokens + usage.completion_tokens)
    /\ gen' = NoGen
    /\ UNCHANGED <<adapter, cfg, tiktoken, tasks, launcher, env, docker, lcall>>

CallBedrockCreateChatCompletion ==
    /\ adapter = "bedrock"
    /\ \E messages \in MsgLists, stream \in BOOLEAN, kwargs \in BedrockArgs,
          resp \in BedrockResponses :
          LET r == BedrockCreateChatCompletion(cfg, messages, stream, kwargs, resp, "caller")
          IN  last' = Op("create_chat_completion",
                         Args(messages, stream, FALSE, kwargs, resp),
                         r.requests, r.outcome)
    /\ gen' = NoGen
    /\ NoUsageChange

CallBedrockACreateChatCompletion ==
    /\ adapter = "bedrock"
    /\ \E messages \in MsgLists, stream \in BOOLEAN, kwargs \in BedrockArgs,
          resp \in BedrockResponses :
          LET r == BedrockACreateChatCompletion(cfg, messages, stream, kwargs, resp)
          IN  last' = Op("acreate_chat_completion",
                         Args(messages, stream, FALSE, kwargs, resp),
                         r.requests, r.outcome)
    /\ gen' = NoGen
    /\ NoUsageChange

CallBedrockCreate ==
    /\ adapter = "bedrock"
    /\ ncalls < MaxCalls
    /\ \E messages \in MsgLists, json_output \in BOOLEAN, extra \in BedrockArgs,
          resp \in BedrockResponses :
          LET r == BedrockCreate(cfg, UsageFields, messages, json_output, extra, resp)
          IN  /\ last' = Op("create", Args(messages, FALSE, json_output, extra, resp),
                            r.requests, r.outcome)
              /\ AfterCreate(r)

CallBedrockCreateStream ==
    /\ adapter = "bedrock"
    /\ ncalls < MaxCalls
    /\ \E messages \in MsgLists, json_output \in BOOLEAN, extra \in BedrockArgs,
          resp \in BedrockResponses :
          LET r == BedrockCreateStream(cfg, UsageFields, messages, json_output, extra, resp)
          IN  /\ last' = Op("create_stream", Args(messages, TRUE, json_output, extra, resp),
                            r.requests, r.outcome)
              /\ AfterCreate(r)

CallBedrockCountTokens ==
    /\ adapter = "bedrock"
    /\ \E arg \in TokenArgs :
          last' = Op("count_tokens", Args(arg, FALSE, FALSE, NoArgs, NoResp),
                     <<>>, BedrockCountTokens(arg))
    /\ gen' = NoGen
    /\ NoUsageChange

CallBedrockRemainingTokens ==
    /\ adapter = "bedrock"
    /\ \E messages \in MsgLists :
          last' = Op("remaining_tokens", Args(messages, FALSE, FALSE, NoArgs, NoResp),
                     <<>>, BedrockRemainingTokens(messages))
    /\ gen' = NoGen
    /\ NoUsageChange

\* close(), the same in both adapters: nothing to close
CallClose ==
    /\ last' = Op("close", Args(<<>>, FALSE, FALSE, NoArgs, NoResp), <<>>, Returned("None"))
    /\ gen' = NoGen
    /\ NoUsageChange


CallGeminiCreateChatCompletion ==
    /\ adapter = "gemini"
    /\ \E messages \in MsgLists, stream \in BOOLEAN, kwargs \in GeminiArgs :
          /\ gen' = GeminiCreateChatCompletion(cfg, messages, stream, kwargs, "caller")
          /\ last' = Op("create_chat_completion",
                        Args(messages, stream, FALSE, kwargs, NoResp),
                        gen'.requests, [kind |-> "generator"])
    /\ NoUsageChange

CallGeminiACreateChatCompletion ==
    /\ adapter = "gemini"
    /\ \E messages \in MsgLists, stream \in BOOLEAN, kwargs \in GeminiArgs :
          /\ gen' = GeminiACreateChatCompletion(cfg, messages, stream, kwargs)
          /\ last' = Op("acreate_chat_completion",
                        Args(messages, stream, FALSE, kwargs, NoResp),
                        gen'.requests, [kind |-> "generator"])
    /\ NoUsageChange

\* the holder of the generator object asks it for its next item
CallGeneratorNext ==
    /\ adapter = "gemini"
    /\ gen.state \in {"created", "suspended"}
    /\ \E vendor \in (IF gen.state = "suspended" THEN {NoResp}
                      ELSE IF gen.stream THEN GeminiStreams ELSE GeminiResponses) :
          /\ gen' = GeneratorNext(gen, vendor)
          /\ last' = Op("next", Args(gen.messages, gen.stream, FALSE, gen.kwargs, vendor),
                        IF gen.state = "created" THEN gen'.requests ELSE <<>>,
                        IF gen'.state = "suspended"
                        THEN [kind |-> "yield", value |-> gen'.out[Len(gen'.out)]]
                        ELSE gen'.ret)
    /\ NoUsageChange

CallGeminiCreate ==
    /\ adapter = "gemini"
    /\ ncalls < MaxCalls
    /\ \E messages \in MsgLists, json_output \in {FALSE}, extra \in GeminiArgs,
          resp \in GeminiResponses :
          LET r == GeminiCreate(cfg, UsageFields, messages, extra, resp, tiktoken)
          IN  /\ last' = Op("create", Args(messages, FALSE, json_output, extra, resp),
                            r.requests, r.outcome)
              /\ AfterCreate(r)

CallGeminiCreateStream ==
    /\ adapter = "gemini"
    /\ ncalls < MaxCalls
    /\ \E messages \in MsgLists, json_output \in {FALSE}, extra \in GeminiArgs,
          resp \in GeminiResponses :
          LET r == GeminiCreateStream(cfg, UsageFields, messages, extra, resp, tiktoken)
          IN  /\ last' = Op("create_stream", Args(messages, TRUE, json_output, extra, resp),
                            r.requests, r.outcome)
              /\ AfterCreate(r)

CallGeminiCountTokens ==
    /\ adapter = "gemini"
    /\ \E arg \in TokenArgs :
          last' = Op("count_tokens", Args(arg, FALSE, FALSE, NoArgs, NoResp),
                     <<>>, Returned(GeminiCountTokens(arg, tiktoken)))
    /\ gen' = NoGen
    /\ NoUsageChange

CallGeminiRemainingTokens ==
    /\ adapter = "gemini"
    /\ \E messages \in MsgLists :
          last' = Op("remaining_tokens", Args(messages, FALSE, FALSE, NoArgs, NoResp),
                     <<>>, Returned(GeminiRemainingTokens(messages, tiktoken)))
    /\ gen' = NoGen
    /\ NoUsageChange

Next ==
    \/ CallBedrockCreateChatCompletion
    \/ CallBedrockACreateChatCompletion
    \/ CallBedrockCreate
    \/ CallBedrockCreateStream
    \/ CallBedrockCountTokens
    \/ CallBedrockRemainingTokens
    \/ CallGeminiCreateChatCompletion
    \/ CallGeminiACreateChatCompletion
    \/ CallGeneratorNext
    \/ CallGeminiCreate
    \/ CallGeminiCreateStream
    \/ CallGeminiCountTokens
    \/ CallGeminiRemainingTokens
    \/ CallClose

Spec == Init /\ [][Next]_vars


(***************************************************************************)
(* Properties of the chat adapters.                                        *)
(***************************************************************************)
Completed == last.op \in {"create", "create_stream"} /\ last.outcome.kind # "error"

\* the usage record the last completed create (or create_stream) returned
LastDelta ==
    IF last.outcome.kind = "stream" THEN last.outcome.items[2].usage
    ELSE last.outcome.value.usage

\* what actual_usage() and total_usage() give the caller
ActualUsageRead ==
    IF adapter = "bedrock" THEN BedrockActualUsage(UsageFields)
    ELSE GeminiActualUsage(UsageFields)
TotalUsageRead ==
    IF adapter = "bedrock" THEN BedrockTotalUsage(UsageFields)
    ELSE GeminiTotalUsage(UsageFields)

\* C1: after N >= 1 successful sequential create() calls, actual_usage() is
\* the usage record of the last call alone, not an accumulation.
C1_ActualIsLastDelta ==
    Completed => ActualUsageRead = Returned(LastDelta)

\* C2: after N >= 1 successful sequential create() calls, total_usage() is the
\* sum of the usage records the N calls returned.
C2_TotalIsSum ==
    ncalls >= 1 => TotalUsageRead = Returned(sum_usage)

C2_Witness ==
    /\ ncalls = 2
    /\ Completed
    /\ TotalUsageRead = Returned(sum_usage)
    /\ LastDelta # sum_usage

\* C3: under any sequence of operations no usage counter ever decreases, and
\* the usage records, once made, are never unmade or set back to zero.
C3_UsageNeverDecreases ==
    [][/\ has_usage => has_usage'
       /\ actual_usage'.prompt_tokens >= actual_usage.prompt_tokens
       /\ actual_usage'.completion_tokens >= actual_usage.completion_tokens
       /\ total_usage'.prompt_tokens >= total_usage.prompt_tokens
       /\ total_usage'.completion_tokens >= total_usage.completion_tokens]_vars

\* a second create has returned, with a smaller completion count than the first
C3_Witness ==
    /\ ncalls = 2
    /\ Completed
    /\ LastDelta.completion_tokens < total_usage.completion_tokens - LastDelta.completion_tokens

\* C4: in streaming mode the generator yields one fragment with a null
\* finish_reason per vendor chunk, carrying the chunk's text, in the vendor's
\* order, then exactly one fragment with a non-null finish_reason, and ends.
C4_StreamFragments ==
    (gen.state \in {"suspended", "finished"} /\ gen.stream /\ gen.ret.kind # "error") =>
        LET k == Len(gen.chunks)
            n == Len(gen.out)
        IN  /\ n <= k + 1
            /\ \A i \in 1..n :
                  IF i <= k
                  THEN /\ gen.out[i].choices[1].finish_reason = "None"
                       /\ gen.out[i].choices[1].delta.content = gen.chunks[i]
                  ELSE gen.out[i].choices[1].finish_reason # "None"
            /\ gen.state = "suspended" => n >= 1
            /\ gen.state = "finished" => n = k + 1

C4_Witness ==
    /\ gen.state = "finished"
    /\ gen.stream
    /\ gen.ret.kind = "exhausted"
    /\ Len(gen.chunks) = 2
    /\ gen.chunks[1] # gen.chunks[2]
    /\ Len(gen.out) = 3

\* C5: with stream=False the Gemini create_chat_completion makes exactly one
\* vendor call when invoked and hands back one result record (a choice with
\* an assistant message and a finish reason), not a lazy sequence.
C5_FullResponseIsRecord ==
    (adapter = "gemini" /\ last.op = "create_chat_completion" /\ ~last.args.stream) =>
        /\ Len(last.requests) = 1
        /\ last.outcome.kind \in {"result", "error"}

\* C6: on the Bedrock adapter acreate_chat_completion gives what
\* create_chat_completion gives for the same arguments and the same backend:
\* the same result or error, and the same request bodies sent.
Bodies(requests) == [i \in 1..Len(requests) |-> requests[i].body]

C6_AsyncEqualsBlocking ==
    (adapter = "bedrock" /\ last.op = "acreate_chat_completion") =>
        LET blocking == BedrockCreateChatCompletion(cfg, last.args.messages,
                            last.args.stream, last.args.kwargs, last.args.resp, "caller")
        IN  /\ last.outcome = blocking.outcome
            /\ Bodies(last.requests) = Bodies(blocking.requests)

C6_Witness ==
    /\ adapter = "bedrock"
    /\ last.op = "acreate_chat_completion"
    /\ last.args.kwargs # NoArgs
    /\ last.outcome.kind = "result"
    /\ Len(last.requests) = 1

\* parts joined with single spaces, built from the right
RECURSIVE SpaceJoined(_)
SpaceJoined(parts) ==
    IF parts = <<>> THEN <<>>
    ELSE IF Len(parts) = 1 THEN parts[1]
    ELSE SpaceJoined(SubSeq(parts, 1, Len(parts) - 1)) \o <<" ">> \o parts[Len(parts)]

\* sent has one entry per message, in order, role and content verbatim but
\* for list contents, which are joined with single spaces
OneEntryPerMessage(messages, sent) ==
    /\ Len(sent) = Len(messages)
    /\ \A i \in 1..Len(messages) :
          /\ sent[i].role = messages[i].role
          /\ sent[i].content =
                IF messages[i].content.t = "list"
                THEN Str(SpaceJoined(messages[i].content.v))
                ELSE messages[i].content

BedrockSent ==
    /\ adapter = "bedrock"
    /\ last.op \in {"create_chat_completion", "acreate_chat_completion",
                    "create", "create_stream"}
    /\ last.requests # <<>>

C8_StreamingNotImplemented ==
    (/\ adapter = "bedrock"
     /\ last.op \in {"create_chat_completion", "acreate_chat_completion", "create_stream"}
     /\ last.args.stream) =>
        /\ last.outcome = Raised("NotImplementedError")
        /\ last.requests = <<>>
        /\ UsageFields = last.usage_before

\* C9: when the vendor response lacks the content list, its first block or
\* that block's text, the completion call fails with an error and the usage
\* counters are what they were before the call.
Malformed(resp) == resp.shape \in {"no_content", "empty_content", "no_text"}

C9_MalformedResponseFails ==
    (BedrockSent /\ Malformed(last.args.resp)) =>
        /\ last.outcome.kind = "error"
        /\ UsageFields = last.usage_before

C9_Witness ==
    /\ BedrockSent
    /\ last.op = "create"
    /\ last.args.resp.shape = "empty_content"
    /\ last.outcome = Raised("IndexError")
    /\ ncalls >= 1
    /\ total_usage.prompt_tokens > 0

\* C15: in every request the Bedrock adapter sends, through any entry point,
\* create with json_output among them, each entry of the messages array has
\* a role the provider accepts: user or assistant.
C15_RolesAccepted ==
    BedrockSent =>
        \A i \in 1..Len(last.requests) :
            LET sent == last.requests[i].body.messages
            IN  \A j \in 1..Len(sent) :
                    sent[j].role \in {<<"u", "s", "e", "r">>,
                                      <<"a", "s", "s", "i", "s", "t", "a", "n", "t">>}

\* C16: on the non-blocking entry points of both adapters
\* (acreate_chat_completion and the iteration of what it returns, create,
\* create_stream) every vendor call runs on a worker of the pool, none on
\* the event loop of the caller.
C16_VendorCallsOnWorker ==
    (\/ last.op \in {"acreate_chat_completion", "create", "create_stream"}
     \/ (last.op = "next" /\ gen.consumer = "loop")) =>
        \A i \in 1..Len(last.requests) : last.requests[i].ctx = "worker"

\* C18: every SDK call of the Gemini adapter, made through
\* create_chat_completion or through create, carries the flattened prompt
\* and both temperature and max_output_tokens, each the per-call override
\* when one is given and the instance's configured value otherwise.
C18_SdkCallCarriesGenerationArgs ==
    (/\ adapter = "gemini"
     /\ last.op \in {"next", "create", "create_stream"}
     /\ last.requests # <<>>) =>
        \A i \in 1..Len(last.requests) :
            LET req == last.requests[i]
                given == last.args.kwargs
            IN  /\ req.prompt = _convert_messages_to_prompt(last.args.messages)
                /\ {"temperature", "max_output_tokens"} \subseteq DOMAIN req.kwargs
                /\ req.kwargs.temperature =
                       (IF "temperature" \in DOMAIN given THEN given.temperature
                        ELSE cfg.temperature)
                /\ req.kwargs.max_output_tokens =
                       (IF "max_output_tokens" \in DOMAIN given
                        THEN given.max_output_tokens ELSE cfg.max_output_tokens)


(***************************************************************************)
(* The launcher as a state machine.                                        *)
(***************************************************************************)
\* a websocket path given to the constructor, and stand-ins for what
\* secrets.token_hex(16) returns
Tok == <<"t", "0", "k">>
RandomTokens == {<<"a", "f", "0", "1">>, <<"9", "c", "e", "2">>}

\* the hostname variables: each unset, empty or naming a host of its own
EnvValues ==
    [MUI_EXTERNAL_HOST |-> {NoneVal, Str(<<>>), Str(<<"e", "x", ".", "c", "o", "m">>)},
     PUBLIC_HOST |-> {Str(<<>>), Str(<<"p", "u", "b">>)},
     PUBLIC_IP |-> {NoneVal, Str(<<"1", ".", "2", ".", "3", ".", "4">>)},
     HOST_IP |-> {NoneVal, Str(<<>>), Str(<<"1", "0", ".", "0", ".", "0", ".", "5">>)}]

Envs == {e \in [EnvNameSet -> UNION {EnvValues[n] : n \in EnvNameSet}] :
            \A n \in EnvNameSet : e[n] \in EnvValues[n]}

\* the ports _get_available_port can learn from the system; the default
\* playwright port lies in the ephemeral range
ProbePorts == {DefaultPlaywrightPort, 49152, 60999}

FixedAdapter ==
    /\ adapter = "bedrock"
    /\ cfg \in Configs(adapter)
    /\ tiktoken = FALSE
    /\ has_usage = FALSE
    /\ has_total = FALSE
    /\ actual_usage = Usage(0, 0)
    /\ total_usage = Usage(0, 0)
    /\ ncalls = 0
    /\ sum_usage = Usage(0, 0)
    /\ last = [op |-> "init"]
    /\ gen = NoGen
    /\ tasks = NoTasks

LauncherInit ==
    /\ FixedAdapter
    /\ env \in Envs
    /\ \E bind_dir \in {<<"/", "w">>, <<"w">>},
          playwright_websocket_path \in {NoneVal, Str(<<>>), Str(Tok)},
          inside_docker \in BOOLEAN,
          network_name \in {DefaultNetwork, <<"n", "e", "t">>},
          token_hex \in RandomTokens :
          launcher = VncDockerPlaywrightBrowser(bind_dir, DefaultImage,
                         DefaultPlaywrightPort, playwright_websocket_path,
                         DefaultNovncPort, inside_docker, network_name, env, token_hex)
    /\ lcall = LCall("__init__", InitArgs(NoneVal, launcher.inside_docker),
                     Returned("None"))
    /\ docker = <<>>

\* the keywords of a later constructor call: a path and docker flag of the
\* caller's choice, with or without an external_host
ExternalHost == <<"h", "o", "s", "t", ".", "e", "x">>
KwArgs ==
    {[bind_dir |-> <<"/", "w">>],
     [bind_dir |-> <<"w">>, inside_docker |-> FALSE, playwright_websocket_path |-> Str(Tok)],
     [bind_dir |-> <<"/", "w">>, inside_docker |-> FALSE, external_host |-> Str(ExternalHost)],
     [bind_dir |-> <<"/", "w">>, external_host |-> Str(ExternalHost)],
     [inside_docker |-> FALSE]}

\* a constructor call; when it raises, no new instance exists and the one
\* at hand stays
CallConstructor ==
    /\ \E kw \in KwArgs, token_hex \in RandomTokens :
          LET r == Construct(kw, env, token_hex)
          IN  /\ launcher' = IF r.kind = "error" THEN launcher ELSE r.value
              /\ lcall' = LCall("__init__",
                                InitArgs(Get(kw, "external_host", NoneVal),
                                         Get(kw, "inside_docker", TRUE)),
                                IF r.kind = "error" THEN r ELSE Returned("None"))
    /\ docker' = <<>>
    /\ UNCHANGED <<adapterVars, env>>

\* _generate_new_browser_address: both probe sockets are open until the end,
\* so the two ports differ
GenerateNewBrowserAddress ==
    /\ \E port1 \in ProbePorts :
          \E port2 \in ProbePorts \ {port1} :
              /\ launcher' = _generate_new_browser_address(launcher, port1, port2, env)
              /\ lcall' = LCall("_generate_new_browser_address",
                                [ports |-> <<port1, port2>>], Returned("None"))
    /\ docker' = <<>>
    /\ UNCHANGED <<adapterVars, env>>

\* create_container: docker holds the requests this call made to the runtime
CreateContainer ==
    /\ docker' = <<create_container(launcher)>>
    /\ lcall' = LCall("create_container", NoArgs, Returned("Container"))
    /\ UNCHANGED <<adapterVars, launcher, env>>

\* the launcher dumped to its configuration and made again from it
Reload ==
    /\ \E token_hex \in RandomTokens :
          launcher' = _from_config(_to_config(launcher), env, token_hex)
    /\ lcall' = LCall("_from_config", [before |-> launcher], Returned("None"))
    /\ docker' = <<>>
    /\ UNCHANGED <<adapterVars, env>>

LauncherNext ==
    \/ CallConstructor
    \/ GenerateNewBrowserAddress
    \/ CreateContainer
    \/ Reload

LauncherSpec == LauncherInit /\ [][LauncherNext]_vars

(***************************************************************************)
(* Properties of the launcher.                                             *)
(***************************************************************************)
\* C10: with inside_docker=True the hostname in browser_address and
\* vnc_address is magentic-ui-vnc-browser_<token>_<current novnc_port>,
\* after construction and after any port regeneration, whatever the
\* hostname variables of the environment hold.
C10_InsideDockerHostname ==
    launcher.inside_docker =>
        LET name == NamePrefix \o launcher.playwright_websocket_path \o <<"_">>
                        \o Decimal(launcher.novnc_port)
        IN  /\ browser_address(launcher) =
                  <<"w", "s", ":", "/", "/">> \o name \o <<":">>
                      \o Decimal(launcher.playwright_port) \o <<"/">>
                      \o launcher.playwright_websocket_path
            /\ vnc_address(launcher) =
                  <<"h", "t", "t", "p", ":", "/", "/">> \o name \o <<":">>
                      \o Decimal(launcher.novnc_port)
                      \o <<"/", "v", "n", "c", ".", "h", "t", "m", "l">>

\* inside docker, after a regeneration, with MUI_EXTERNAL_HOST naming a host
C10_Witness ==
    /\ launcher.inside_docker
    /\ launcher.novnc_port # DefaultNovncPort
    /\ env["MUI_EXTERNAL_HOST"].t = "str" /\ env["MUI_EXTERNAL_HOST"].v # <<>>
    /\ launcher.hostname = ContainerName(launcher.playwright_websocket_path,
                                         launcher.novnc_port)

WsUrl(host, port, token) ==
    <<"w", "s", ":", "/", "/">> \o host \o <<":">> \o port \o <<"/">> \o token

VncUrl(host, port) ==
    <<"h", "t", "t", "p", ":", "/", "/">> \o host \o <<":">> \o port
        \o <<"/", "v", "n", "c", ".", "h", "t", "m", "l">>

\* C11: with inside_docker=False the hostname is the first non-empty value
\* among MUI_EXTERNAL_HOST, PUBLIC_HOST, PUBLIC_IP, HOST_IP in that order, or
\* 127.0.0.1 when all four are unset or empty; vnc_address is
\* http://<hostname>:<novnc_port>/vnc.html and browser_address is
\* ws://<hostname>:<playwright_port>/<token>.
C11_EnvFallbackHostname ==
    ~launcher.inside_docker =>
        LET order == <<"MUI_EXTERNAL_HOST", "PUBLIC_HOST", "PUBLIC_IP", "HOST_IP">>
            set == {i \in 1..4 : env[order[i]].t = "str" /\ env[order[i]].v # <<>>}
            first == CHOOSE i \in set : \A j \in set : i <= j
            host == IF set = {} THEN <<"1", "2", "7", ".", "0", ".", "0", ".", "1">>
                    ELSE env[order[first]].v
        IN  /\ vnc_address(launcher) = VncUrl(host, Decimal(launcher.novnc_port))
            /\ browser_address(launcher) =
                   WsUrl(host, Decimal(launcher.playwright_port),
                         launcher.playwright_websocket_path)

\* outside docker, after a regeneration, the first two variables empty or
\* unset and the last two both set: the third one is the hostname
C11_Witness ==
    /\ ~launcher.inside_docker
    /\ lcall.op = "_generate_new_browser_address"
    /\ env["MUI_EXTERNAL_HOST"] = Str(<<>>)
    /\ env["PUBLIC_HOST"] = Str(<<>>)
    /\ env["PUBLIC_IP"].t = "str"
    /\ env["HOST_IP"].t = "str" /\ env["HOST_IP"].v # <<>>
    /\ launcher.hostname = env["PUBLIC_IP"].v

\* C12: outside docker an external hostname given to the constructor comes
\* before every hostname variable: the constructor accepts it and the
\* hostname of browser_address and vnc_address is the one given.
C12_ExternalHostParameterFirst ==
    (/\ lcall.op = "__init__"
     /\ lcall.args.external_host # NoneVal
     /\ ~lcall.args.inside_docker) =>
        /\ lcall.outcome = Returned("None")
        /\ browser_address(launcher) =
               WsUrl(lcall.args.external_host.v, Decimal(launcher.playwright_port),
                     launcher.playwright_websocket_path)
        /\ vnc_address(launcher) =
               VncUrl(lcall.args.external_host.v, Decimal(launcher.novnc_port))

\* C13: after each _generate_new_browser_address the two ports are the two
\* probed values, the token is the one from before, and the container name,
\* the inside-network hostname and both addresses are built from the new
\* ports: no derived field refers to an old port.
C13_RegenerationConsistent ==
    [][lcall'.op = "_generate_new_browser_address" =>
          LET token == launcher.playwright_websocket_path
              port1 == lcall'.args.ports[1]
              port2 == lcall'.args.ports[2]
              name == NamePrefix \o token \o <<"_">> \o Decimal(port2)
              host == IF launcher.inside_docker THEN name ELSE launcher'.hostname
          IN  /\ launcher'.playwright_port = port1
              /\ launcher'.novnc_port = port2
              /\ launcher'.playwright_websocket_path = token
              /\ launcher'.docker_name = name
              /\ launcher'.inside_docker = launcher.inside_docker
              /\ browser_address(launcher') = WsUrl(host, Decimal(port1), token)
              /\ vnc_address(launcher') = VncUrl(host, Decimal(port2))]_vars

\* inside docker, regenerated to two ports that both differ from the defaults
C13_Witness ==
    /\ lcall.op = "_generate_new_browser_address"
    /\ launcher.inside_docker
    /\ launcher.playwright_port = lcall.args.ports[1]
    /\ launcher.playwright_port # DefaultPlaywrightPort
    /\ launcher.novnc_port = lcall.args.ports[2]
    /\ launcher.novnc_port # DefaultNovncPort
    /\ launcher.docker_name = NamePrefix \o launcher.playwright_websocket_path
                                  \o <<"_">> \o Decimal(launcher.novnc_port)

C19_ConfigRoundTrip ==
    lcall.op = "_from_config" =>
        LET b == lcall.args.before
            was == create_container(b)
            now == create_container(launcher)
        IN  /\ launcher.playwright_websocket_path = b.playwright_websocket_path
            /\ launcher.playwright_port = b.playwright_port
            /\ launcher.novnc_port = b.novnc_port
            /\ browser_address(launcher) = browser_address(b)
            /\ vnc_address(launcher) = vnc_address(b)
            /\ launcher.docker_name = b.docker_name
            /\ now.network = was.network
            /\ now.ports = was.ports
            /\ now.volumes = was.volumes
            /\ now.environment = was.environment

(***************************************************************************)
(* Overlapping create() calls on one adapter instance.  Each call is a     *)
(* coroutine on an event loop.  A loop runs one coroutine at a time and    *)
(* takes up another only where the running one awaits or ends; loops of    *)
(* different threads run at once, and there every load and store of an     *)
(* attribute of the shared instance is a step of its own.                  *)
(***************************************************************************)
Callers == 1..MaxCallers
Loops == {1, 2}

\* where a coroutine stands inside _update_usage
Running ==
    {"hasattr", "init_actual", "init_total",
     "load_actual_prompt", "load_actual_completion", "store_actual",
     "load_total_prompt", "load_total_completion", "store_total"}

NewTask(loop) ==
    [loop |-> loop, pc |-> "start", messages |-> <<>>, resp |-> NoResp,
     outcome |-> [kind |-> "pending"], reg |-> Usage(0, 0)]

\* the usage of an earlier create() on the instance, when there was one
EarlierUsage == Usage(4, 1)

RaceInit ==
    /\ adapter \in {"bedrock", "gemini"}
    /\ cfg \in Configs(adapter)
    /\ tiktoken = FALSE
    /\ has_usage \in BOOLEAN
    /\ has_total = has_usage
    /\ actual_usage = (IF has_usage THEN EarlierUsage ELSE Usage(0, 0))
    /\ total_usage = actual_usage
    /\ ncalls = (IF has_usage THEN 1 ELSE 0)
    /\ sum_usage = total_usage
    /\ last = [op |-> "init"]
    /\ gen = NoGen
    /\ tasks \in {[c \in Callers |-> NewTask(l[c])] :
                     l \in {f \in [Callers -> Loops] : f[1] = 1}}
    /\ FixedLauncher

\* create() with the counter update split by awaits: the loop may take up
\* another coroutine between any two steps
LoopFreeAnywhere(c) == TRUE

\* the loop of coroutine c is free for it: no other coroutine of that loop
\* stands between two awaits.  create() awaits once in the Bedrock adapter
\* (run_in_executor) and nowhere in the Gemini adapter.
LoopFree(c) ==
    \A d \in Callers \ {c} :
        tasks[d].loop = tasks[c].loop => tasks[d].pc \notin Running

\* what the backend answers to the calls that overlap
RaceResponses ==
    IF adapter = "bedrock"
    THEN {r \in BedrockResponses : r.shape = "no_text" \/ r.text = Hi}
    ELSE {r \in GeminiResponses : r.shape = "raise" \/ r.text = Hi}

SetTask(c, t) == tasks' = [tasks EXCEPT ![c] = t]
Goto(c, pc) == SetTask(c, [tasks[c] EXCEPT !.pc = pc])

RaceUnchanged ==
    UNCHANGED <<adapter, cfg, tiktoken, last, gen, launcher, env, docker, lcall>>
CountersUnchanged ==
    UNCHANGED <<has_usage, has_total, actual_usage, total_usage, ncalls, sum_usage>>

\* the call starts.  Bedrock: it hands create_chat_completion to the
\* executor and awaits.  Gemini: it calls the SDK itself and goes on to
\* _update_usage without an await.
RaceBegin(c) ==
    /\ tasks[c].pc = "start"
    /\ LoopFree(c)
    /\ \E messages \in MsgLists, resp \in RaceResponses :
          IF adapter = "bedrock"
          THEN SetTask(c, [tasks[c] EXCEPT !.pc = "awaiting",
                                           !.messages = messages, !.resp = resp])
          ELSE LET r == GeminiCreate(cfg, UsageFields, messages, NoArgs, resp, tiktoken)
               IN  SetTask(c, [tasks[c] EXCEPT
                       !.pc = IF r.outcome.kind = "error" THEN "done" ELSE "hasattr",
                       !.messages = messages, !.resp = resp,
                       !.outcome = r.outcome])
    /\ CountersUnchanged
    /\ RaceUnchanged

\* the worker has made the vendor call: the awaited future is done
RaceWorkerDone(c) ==
    /\ adapter = "bedrock"
    /\ tasks[c].pc = "awaiting"
    /\ Goto(c, "ready")
    /\ CountersUnchanged
    /\ RaceUnchanged

\* the loop takes the coroutine up again after its await: it reads the
\* response, counts the tokens and enters _update_usage
RaceResume(c) ==
    /\ adapter = "bedrock"
    /\ tasks[c].pc = "ready"
    /\ LoopFree(c)
    /\ LET r == BedrockCreate(cfg, UsageFields, tasks[c].messages, FALSE, NoArgs,
                              tasks[c].resp)
       IN  SetTask(c, [tasks[c] EXCEPT
               !.pc = IF r.outcome.kind = "error" THEN "done" ELSE "hasattr",
               !.outcome = r.outcome])
    /\ CountersUnchanged
    /\ RaceUnchanged

\* the usage record the call is about to add
Delta(c) == tasks[c].outcome.value.usage

\* if not hasattr(self, "_actual_usage")
RaceHasattr(c) ==
    /\ tasks[c].pc = "hasattr"
    /\ Goto(c, IF has_usage THEN "load_actual_prompt" ELSE "init_actual")
    /\ CountersUnchanged
    /\ RaceUnchanged

\* self._actual_usage = RequestUsage(prompt_tokens=0, completion_tokens=0)
RaceInitActual(c) ==
    /\ tasks[c].pc = "init_actual"
    /\ has_usage' = TRUE
    /\ actual_usage' = Usage(0, 0)
    /\ Goto(c, "init_total")
    /\ UNCHANGED <<has_total, total_usage, ncalls, sum_usage>>
    /\ RaceUnchanged

\* self._total_usage = RequestUsage(prompt_tokens=0, completion_tokens=0)
RaceInitTotal(c) ==
    /\ tasks[c].pc = "init_total"
    /\ has_total' = TRUE
    /\ total_usage' = Usage(0, 0)
    /\ Goto(c, "load_actual_prompt")
    /\ UNCHANGED <<has_usage, actual_usage, ncalls, sum_usage>>
    /\ RaceUnchanged

\* the two keyword arguments of type(delta)(...), each loading the attribute
\* anew, and then the store of the new record
RaceLoadActualPrompt(c) ==
    /\ tasks[c].pc = "load_actual_prompt"
    /\ SetTask(c, [tasks[c] EXCEPT
           !.pc = "load_actual_completion",
           !.reg.prompt_tokens = actual_usage.prompt_tokens + Delta(c).prompt_tokens])
    /\ CountersUnchanged
    /\ RaceUnchanged

RaceLoadActualCompletion(c) ==
    /\ tasks[c].pc = "load_actual_completion"
    /\ SetTask(c, [tasks[c] EXCEPT
           !.pc = "store_actual",
           !.reg.completion_tokens =
               actual_usage.completion_tokens + Delta(c).completion_tokens])
    /\ CountersUnchanged
    /\ RaceUnchanged

RaceStoreActual(c) ==
    /\ tasks[c].pc = "store_actual"
    /\ actual_usage' = tasks[c].reg
    /\ Goto(c, "load_total_prompt")
    /\ UNCHANGED <<has_usage, has_total, total_usage, ncalls, sum_usage>>
    /\ RaceUnchanged

\* self._total_usage.prompt_tokens raises AttributeError while another
\* thread stands between its two initial assignments
RaceLoadTotalPrompt(c) ==
    /\ tasks[c].pc = "load_total_prompt"
    /\ IF has_total
       THEN SetTask(c, [tasks[c] EXCEPT
                !.pc = "load_total_completion",
                !.reg.prompt_tokens =
                    total_usage.prompt_tokens + Delta(c).prompt_tokens])
       ELSE SetTask(c, [tasks[c] EXCEPT !.pc = "done",
                                        !.outcome = Raised("AttributeError")])
    /\ CountersUnchanged
    /\ RaceUnchanged

RaceLoadTotalCompletion(c) ==
    /\ tasks[c].pc = "load_total_completion"
    /\ SetTask(c, [tasks[c] EXCEPT
           !.pc = "store_total",
           !.reg.completion_tokens =
               total_usage.completion_tokens + Delta(c).completion_tokens])
    /\ CountersUnchanged
    /\ RaceUnchanged

\* the store of self._total_usage, and the return of the CreateResult
RaceStoreTotal(c) ==
    /\ tasks[c].pc = "store_total"
    /\ total_usage' = tasks[c].reg
    /\ ncalls' = ncalls + 1
    /\ sum_usage' = Usage(sum_usage.prompt_tokens + Delta(c).prompt_tokens,
                          sum_usage.completion_tokens + Delta(c).completion_tokens)
    /\ Goto(c, "done")
    /\ UNCHANGED <<has_usage, has_total, actual_usage>>
    /\ RaceUnchanged

RaceNext ==
    \E c \in Callers :
        \/ RaceBegin(c)
        \/ RaceWorkerDone(c)
        \/ RaceResume(c)
        \/ RaceHasattr(c)
        \/ RaceInitActual(c)
        \/ RaceInitTotal(c)
        \/ RaceLoadActualPrompt(c)
        \/ RaceLoadActualCompletion(c)
        \/ RaceStoreActual(c)
        \/ RaceLoadTotalPrompt(c)
        \/ RaceLoadTotalCompletion(c)
        \/ RaceStoreTotal(c)

RaceSpec == RaceInit /\ [][RaceNext]_vars

AllDone == \A c \in Callers : tasks[c].pc = "done"
OneLoop == \A c \in Callers : tasks[c].loop = 1

\* C17: two create() calls under way at once on one instance race on the
\* usage counters: their loads and stores can interleave so that, both calls
\* having returned, total usage is not the sum of the usage records returned.
\* What holds of every run: the total never exceeds that sum, and it falls
\* short of it, or a call ends in AttributeError, only when the calls run on
\* the loops of different threads.
C17_LostUpdateOnlyAcrossThreads ==
    AllDone =>
        /\ total_usage.prompt_tokens <= sum_usage.prompt_tokens
        /\ total_usage.completion_tokens <= sum_usage.completion_tokens
        /\ OneLoop =>
              /\ total_usage = sum_usage
              /\ \A c \in Callers : tasks[c].outcome # Raised("AttributeError")

\* the lost update: both calls returned a result and the total lacks exactly
\* the first call's usage
C17_Witness ==
    /\ AllDone
    /\ \A c \in Callers : tasks[c].outcome.kind = "result"
    /\ total_usage.prompt_tokens =
           sum_usage.prompt_tokens - tasks[1].outcome.value.usage.prompt_tokens
    /\ total_usage.completion_tokens =
           sum_usage.completion_tokens - tasks[1].outcome.value.usage.completion_tokens

====
